---- MODULE Spec2Model ----
(***************************************************************************)
(* A model of the Sangria folding scheme for relaxed PLONK                 *)
(* (src/src/relaxed_plonk.rs, src/src/folding_scheme.rs).                  *)
(*                                                                         *)
(* The library keeps no state between calls, so the state of the model is  *)
(* the latest call: which operation ran, on which arguments, what it       *)
(* returned, and the locals it built on the way (the sponge and the        *)
(* challenge).  Every operation is an operator computed as the code        *)
(* computes it; an action draws the arguments and applies the operator.    *)
(*                                                                         *)
(* A Rust call ends in one of three ways, and the model keeps them apart:  *)
(*   [kind |-> "Ok", value |-> v]       the call returned Ok(v)            *)
(*   [kind |-> "Err", error |-> e]      the call returned Err(e)           *)
(*   [kind |-> "Panic"]                 the call aborted (a Vec index out  *)
(*                                      of range)                          *)
(* Rust indices are 0-based, TLA+ sequences 1-based: v[i] is v[i + 1].     *)
(***************************************************************************)
EXTENDS Integers, Sequences, FiniteSets, TLC

VARIABLES
    op,      \* the operation of the latest call ("init" before the first)
    args,    \* its arguments, a record
    result,  \* its outcome: Ok, Err or Panic
    locals,  \* the sponge and the challenge the call built
    base_scalar_map,  \* of each ScalarsAndBases: its entries (base, scalar)
    pushed   \* history: of each ScalarsAndBases, the (scalar, base) pushed so far

vars == <<op, args, result, locals, base_scalar_map, pushed>>

-----------------------------------------------------------------------------
(* Bounds of the model *)

\* The field F is the integers modulo Modulus.
Modulus == 3
\* Matrices have at most MaxCols columns, instances at most MaxCols commitments.
MaxCols == 2
\* Columns have at most MaxRows entries.
MaxRows == 2
\* Accessors are called with indices 0..MaxIndex.
MaxIndex == 3
\* setup is called with at most MaxGates gates and MaxPublicInputs inputs.
MaxGates == 2
MaxPublicInputs == 1
\* Circuits have at most MaxSelectors selector columns.
MaxSelectors == 6

-----------------------------------------------------------------------------
(* Program constants *)

LEFT_SELECTOR_INDEX == 0
RIGHT_SELECTOR_INDEX == 1
OUTPUT_SELECTOR_INDEX == 2
MULTIPLICATION_SELECTOR_INDEX == 3
CONSTANT_SELECTOR_INDEX == 4

-----------------------------------------------------------------------------
(* Results *)

Ok(v) == [kind |-> "Ok", value |-> v]
Err(e) == [kind |-> "Err", error |-> e]
Panic == [kind |-> "Panic"]
IndexOutOfBounds == "IndexOutOfBounds"

IsOk(r) == r.kind = "Ok"
IsErr(r) == r.kind = "Err"
IsPanic(r) == r.kind = "Panic"

-----------------------------------------------------------------------------
(* The field and the commitment group *)

F == 0..(Modulus - 1)

FAdd(a, b) == (a + b) % Modulus
FMul(a, b) == (a * b) % Modulus

\* Commitments form a group on which F acts; here the additive group of F.
Commitment == F
CommAdd(a, b) == (a + b) % Modulus
CommMul(a, c) == (a * c) % Modulus

RECURSIVE Flatten(_)
\* The entries of a sequence of vectors, in order.
Flatten(m) == IF m = <<>> THEN <<>> ELSE Head(m) \o Flatten(Tail(m))

RECURSIVE InnerProduct(_, _)
\* sum of g[i] * x[i] in the commitment group.
InnerProduct(g, x) ==
    IF x = <<>> \/ g = <<>> THEN 0
    ELSE CommAdd(CommMul(Head(g), Head(x)), InnerProduct(Tail(g), Tail(x)))

-----------------------------------------------------------------------------
(* HomomorphicCommitmentScheme: setup and commit.  The repository declares the *)
(* trait and implements no scheme; this is the contract of section 6 of the   *)
(* specification, on a linear (hence homomorphic) commitment.                 *)

\* A key for vectors of length exactly len, its generators drawn from the rng.
CommitSetup(rng, len) ==
    [len |-> len,
     g |-> [i \in 1..len |-> 1 + ((rng + i) % (Modulus - 1))],
     h |-> 1 + ((rng + len + 1) % (Modulus - 1))]

\* commit fails when the vector does not have the key's length.
Commit(commit_key, x, r) ==
    IF Len(x) # commit_key.len
    THEN Err(IndexOutOfBounds)
    ELSE Ok(CommAdd(InnerProduct(commit_key.g, x), CommMul(commit_key.h, r)))

-----------------------------------------------------------------------------
(* The Poseidon sponge: absorb in order, squeeze a field element *)

PoseidonSponge_new(constants) ==
    [constants |-> constants, absorbed |-> <<>>, squeezed |-> 0]

\* One absorb call: the encoding elems of the value is appended.
absorb(sponge, elems) == [sponge EXCEPT !.absorbed = Append(@, elems)]

\* The digest of the elements es, absorbed one after the other from state h.
Permute(h, es) ==
    LET state[j \in 0..Len(es)] ==
            IF j = 0 THEN h ELSE (state[j - 1] + j * es[j] + 1) % Modulus
    IN  state[Len(es)]

\* squeeze(1)[0]: a function of the constants and of everything absorbed, in order.
squeeze_field_element(sponge) ==
    Permute(sponge.constants % Modulus, Flatten(sponge.absorbed))

squeezed_once(sponge) == [sponge EXCEPT !.squeezed = @ + 1]

NoSponge == PoseidonSponge_new(0)
NoLocals == [sponge |-> NoSponge, challenge |-> 0]

-----------------------------------------------------------------------------
(* PLONKWitness and PLONKInstance: a matrix, a sequence of columns *)

\* PLONKWitness::column
PLONKWitness_column(matrix, column_index) ==
    IF column_index > Len(matrix) THEN Err(IndexOutOfBounds)
    ELSE IF column_index >= Len(matrix) THEN Panic
    ELSE Ok(matrix[column_index + 1])

\* PLONKInstance::column
PLONKInstance_column(matrix, column_index) ==
    IF column_index > Len(matrix) THEN Err(IndexOutOfBounds)
    ELSE IF column_index >= Len(matrix) THEN Panic
    ELSE Ok(matrix[column_index + 1])

\* The closure of row, applied to one column.
row_entry(column, row_index) ==
    IF row_index > Len(column) THEN Err(IndexOutOfBounds)
    ELSE IF row_index >= Len(column) THEN Panic
    ELSE Ok(column[row_index + 1])

RECURSIVE collect_row(_, _)
\* iter().map(closure).collect::<Result<Vec<_>, _>>(): the columns are visited in
\* order and the first Err (or panic) ends the iteration.
collect_row(matrix, row_index) ==
    IF matrix = <<>> THEN Ok(<<>>)
    ELSE LET first == row_entry(Head(matrix), row_index)
         IN  IF ~IsOk(first) THEN first
             ELSE LET rest == collect_row(Tail(matrix), row_index)
                  IN  IF ~IsOk(rest) THEN rest
                      ELSE Ok(<<first.value>> \o rest.value)

\* PLONKWitness::row
PLONKWitness_row(matrix, row_index) == collect_row(matrix, row_index)

\* PLONKInstance::row
PLONKInstance_row(matrix, row_index) == collect_row(matrix, row_index)

-----------------------------------------------------------------------------
(* RelaxedPLONKInstance and RelaxedPLONKWitness *)

instance_column(self, column_index) ==
    PLONKInstance_column(self.plonk_instance, column_index)

instance_row(self, row_index) == PLONKInstance_row(self.plonk_instance, row_index)

single_witness_commitment(self, column_index) ==
    IF column_index > Len(self.witness_commitments) THEN Err(IndexOutOfBounds)
    ELSE IF column_index >= Len(self.witness_commitments) THEN Panic
    ELSE Ok(self.witness_commitments[column_index + 1])

witness_column(self, column_index) ==
    PLONKWitness_column(self.plonk_witness, column_index)

witness_row(self, row_index) == PLONKWitness_row(self.plonk_witness, row_index)

witness_column_with_rand(self, column_index) ==
    LET column == PLONKWitness_column(self.plonk_witness, column_index)
    IN  IF ~IsOk(column) THEN column
        ELSE IF column_index >= Len(self.commitment_hidings) THEN Panic
        ELSE Ok(<<column.value, self.commitment_hidings[column_index + 1]>>)

-----------------------------------------------------------------------------
(* PLONKCircuit *)

single_selector(self, selector_index) ==
    IF selector_index > Len(self.selectors) THEN Err(IndexOutOfBounds)
    ELSE IF selector_index >= Len(self.selectors) THEN Panic
    ELSE Ok(self.selectors[selector_index + 1])

-----------------------------------------------------------------------------
(* Transcript encodings: what absorbing a value appends to the sponge.  The    *)
(* Absorb implementations of the repository's types are not written           *)
(* (todo!()); each is modelled as the canonical, order-preserving encoding of *)
(* the value's fields that section 4.3 of the specification asks for.         *)

Bytes_to_sponge(bytes) == [i \in 1..Len(bytes) |-> bytes[i] % Modulus]

Field_to_sponge(x) == <<x>>

Commitment_to_sponge(c) == <<c>>

CommitKey_to_sponge(key) == key.g \o <<key.h>>

VerifierKey_to_sponge(vk) == <<vk.selector_c_commitment, vk.transcript_seed>>

RelaxedPLONKInstance_to_sponge(inst) ==
    Flatten(inst.plonk_instance)
        \o <<inst.scaling_factor, inst.slack_commitment>>
        \o inst.witness_commitments

PLONKCircuit_to_sponge(circuit) ==
    Flatten(circuit.selectors) \o circuit.copy_constraint

PublicParameters_to_sponge(pp) ==
    <<pp.number_of_public_inputs % Modulus, pp.number_of_gates % Modulus>>
        \o CommitKey_to_sponge(pp.commit_key_witness)
        \o CommitKey_to_sponge(pp.commit_key_selectors_and_slack)
        \o <<pp.poseidon_constants % Modulus>>
        \o Bytes_to_sponge(pp.domain_separator)

-----------------------------------------------------------------------------
(* Algebra on RelaxedPLONKInstance.  The bodies of Clone, Mul and Add are not  *)
(* written in the repository (todo!()); they are modelled on section 4.1 of   *)
(* the specification, which names the three fields they change and leaves    *)
(* plonk_instance alone.                                                      *)

\* Clone: a copy, field for field.
RelaxedPLONKInstance_clone(self) == self

\* Mul that leaves the scaling factor as it is.
RelaxedPLONKInstance_mul_keeps_scaling(self, rhs) ==
    [self EXCEPT
        !.slack_commitment = CommMul(@, rhs),
        !.witness_commitments =
            [i \in 1..Len(@) |-> CommMul(@[i], rhs)]]

\* Add that leaves the slack commitment of self as it is.
RelaxedPLONKInstance_add_keeps_slack(self, rhs) ==
    [self EXCEPT
        !.scaling_factor = FAdd(@, rhs.scaling_factor),
        !.witness_commitments =
            [i \in 1..Len(@) |-> CommAdd(@[i], rhs.witness_commitments[i])]]

\* self * rhs: scales the scaling factor, the slack commitment and every witness
\* commitment by the field element rhs.
RelaxedPLONKInstance_mul(self, rhs) ==
    [self EXCEPT
        !.scaling_factor = FMul(@, rhs),
        !.slack_commitment = CommMul(@, rhs),
        !.witness_commitments =
            [i \in 1..Len(@) |-> CommMul(@[i], rhs)]]

\* self + rhs: adds the scaling factors and adds the commitments pointwise.  Both
\* instances are instances of one circuit and have as many witness commitments.
RelaxedPLONKInstance_add(self, rhs) ==
    [self EXCEPT
        !.scaling_factor = FAdd(@, rhs.scaling_factor),
        !.slack_commitment = CommAdd(@, rhs.slack_commitment),
        !.witness_commitments =
            [i \in 1..Len(@) |-> CommAdd(@[i], rhs.witness_commitments[i])]]

-----------------------------------------------------------------------------
(* PLONKFoldingScheme: setup, encode, prover, verifier *)

\* The rng after a commitment key of length len was drawn from it.
rng_after(rng, len) == rng + len + 1

\* setup with the selectors-and-slack key one generator short.
setup_short_slack_key(info, rng) ==
    LET commit_key_witness == CommitSetup(rng, info.number_of_gates)
        commit_key_selectors_and_slack ==
            CommitSetup(rng_after(rng, info.number_of_gates),
                        info.number_of_gates + info.number_of_public_inputs)
    IN  [number_of_gates |-> info.number_of_gates,
         number_of_public_inputs |-> info.number_of_public_inputs,
         commit_key_witness |-> commit_key_witness,
         commit_key_selectors_and_slack |-> commit_key_selectors_and_slack,
         domain_separator |-> info.domain_separator,
         poseidon_constants |-> info.poseidon_constants]

setup(info, rng) ==
    LET commit_key_witness == CommitSetup(rng, info.number_of_gates)
        commit_key_selectors_and_slack ==
            CommitSetup(rng_after(rng, info.number_of_gates),
                        info.number_of_gates + info.number_of_public_inputs + 1)
    IN  [number_of_gates |-> info.number_of_gates,
         number_of_public_inputs |-> info.number_of_public_inputs,
         commit_key_witness |-> commit_key_witness,
         commit_key_selectors_and_slack |-> commit_key_selectors_and_slack,
         domain_separator |-> info.domain_separator,
         poseidon_constants |-> info.poseidon_constants]

\* The sponge of encode once the circuit, the parameters and r_C are absorbed.
encode_sponge(pp, circuit, randomness_c) ==
    LET sponge0 == PoseidonSponge_new(pp.poseidon_constants)
        sponge1 == absorb(sponge0, PLONKCircuit_to_sponge(circuit))
        sponge2 == absorb(sponge1, PublicParameters_to_sponge(pp))
    IN  absorb(sponge2, Field_to_sponge(randomness_c))

\* randomness_c is F::rand(rng), drawn by the caller of this operator.
encode(pp, circuit, randomness_c) ==
    LET c_selector == single_selector(circuit, CONSTANT_SELECTOR_INDEX)
    IN  IF ~IsOk(c_selector) THEN c_selector
        ELSE
        LET commitment_q_c ==
                Commit(pp.commit_key_selectors_and_slack, c_selector.value,
                       randomness_c)
        IN  IF ~IsOk(commitment_q_c) THEN commitment_q_c
            ELSE
            LET transcript_seed ==
                    squeeze_field_element(encode_sponge(pp, circuit, randomness_c))
                vk == [selector_c_commitment |-> commitment_q_c.value,
                       transcript_seed |-> transcript_seed]
                pk == [circuit |-> circuit,
                       verifier_key |-> vk,
                       selector_c_commit_randomness |-> randomness_c]
            IN  Ok(<<pk, vk>>)

\* Step 3 of the prover (its body is not written in the repository; modelled on
\* section 4.2 of the specification): the challenge, from the verifier key of the
\* prover key, the two instances and the prover message, absorbed in that order.
prover_challenge(public_parameters, prover_key, left_instance, right_instance, prover_message) ==
    LET sponge0 == PoseidonSponge_new(public_parameters.poseidon_constants)
        sponge1 == absorb(sponge0, VerifierKey_to_sponge(prover_key.verifier_key))
        sponge2 == absorb(sponge1, RelaxedPLONKInstance_to_sponge(left_instance))
        sponge3 == absorb(sponge2, RelaxedPLONKInstance_to_sponge(right_instance))
        sponge4 == absorb(sponge3, Commitment_to_sponge(prover_message))
    IN  squeeze_field_element(sponge4)

\* verifier_sponge with the two instances absorbed in the other order.
verifier_sponge_swapped(public_parameters, verifier_key, left_instance, right_instance, prover_message) ==
    LET sponge0 == PoseidonSponge_new(public_parameters.poseidon_constants)
        sponge1 == absorb(sponge0, VerifierKey_to_sponge(verifier_key))
        sponge2 == absorb(sponge1, RelaxedPLONKInstance_to_sponge(right_instance))
        sponge3 == absorb(sponge2, RelaxedPLONKInstance_to_sponge(left_instance))
    IN  absorb(sponge3, Commitment_to_sponge(prover_message))

\* The sponge of verifier once its four values are absorbed.
verifier_sponge(public_parameters, verifier_key, left_instance, right_instance, prover_message) ==
    LET sponge0 == PoseidonSponge_new(public_parameters.poseidon_constants)
        sponge1 == absorb(sponge0, VerifierKey_to_sponge(verifier_key))
        sponge2 == absorb(sponge1, RelaxedPLONKInstance_to_sponge(left_instance))
        sponge3 == absorb(sponge2, RelaxedPLONKInstance_to_sponge(right_instance))
    IN  absorb(sponge3, Commitment_to_sponge(prover_message))

\* let challenge: F = sponge.squeeze_field_elements(1)[0];
verifier_challenge(public_parameters, verifier_key, left_instance, right_instance, prover_message) ==
    squeeze_field_element(
        verifier_sponge(public_parameters, verifier_key, left_instance,
                        right_instance, prover_message))

\* fold_instances with the challenge applied to the left instance.
fold_instances_swapped(left_instance, right_instance, challenge) ==
    RelaxedPLONKInstance_add(
        RelaxedPLONKInstance_mul(RelaxedPLONKInstance_clone(left_instance), challenge),
        right_instance)

\* right_instance.clone() * challenge + left_instance
fold_instances(left_instance, right_instance, challenge) ==
    RelaxedPLONKInstance_add(
        RelaxedPLONKInstance_mul(RelaxedPLONKInstance_clone(right_instance), challenge),
        left_instance)

verifier(public_parameters, verifier_key, left_instance, right_instance, prover_message) ==
    Ok(fold_instances(left_instance, right_instance,
                      verifier_challenge(public_parameters, verifier_key,
                                         left_instance, right_instance,
                                         prover_message)))

-----------------------------------------------------------------------------
(* The arguments the calls are made with *)

\* A vector of k field elements, and a matrix of n columns of m entries.
Vec(k, s) == [i \in 1..k |-> (s + i) % Modulus]
Matrix(n, m, s) == [c \in 1..n |-> [r \in 1..m |-> (s + (c - 1) * m + r) % Modulus]]

Rngs == {0, 1}
PoseidonConstants == {0, 1}
DomainSeparators == {<<>>, <<1>>}

SetupInfos ==
    [number_of_public_inputs : 0..MaxPublicInputs,
     number_of_gates : 0..MaxGates,
     domain_separator : DomainSeparators,
     poseidon_constants : PoseidonConstants]

\* Public parameters are the ones setup produces.
PublicParametersSet == {setup(info, rng) : info \in SetupInfos, rng \in Rngs}

\* Circuits with any number of selector columns, well formed (5) or not.
MaxSelectorLen == MaxGates + MaxPublicInputs + 1
Circuits ==
    {[selectors |-> Matrix(n, m, s), copy_constraint |-> <<>>] :
        n \in 0..MaxSelectors, m \in 0..MaxSelectorLen, s \in F}

\* Relaxed instances read by the accessors: any shape of matrix, any number of
\* witness commitments.
AccessorInstances ==
    {[plonk_instance |-> Matrix(n, m, s),
      scaling_factor |-> 1,
      slack_commitment |-> 0,
      witness_commitments |-> Vec(k, s)] :
        n \in 0..MaxCols, m \in 0..MaxRows, k \in 0..MaxCols, s \in F}

\* Relaxed witnesses: one hiding randomness per witness column.
AccessorWitnesses ==
    {[plonk_witness |-> Matrix(n, m, s),
      slack_vector |-> [r \in 1..m |-> 0],
      commitment_hidings |-> Vec(n, s + 1)] :
        n \in 0..MaxCols, m \in 0..MaxRows, s \in F}

Indices == 0..MaxIndex

\* Relaxed instances of one circuit with k witness columns, as the verifier folds.
FoldInstances(k) ==
    {[plonk_instance |-> Matrix(1, 1, sl),
      scaling_factor |-> sc,
      slack_commitment |-> sl,
      witness_commitments |-> Vec(k, w)] : sc \in F, sl \in F, w \in F}

\* The parameters and keys the verifier is called with.
VerifierParameters ==
    {setup([number_of_public_inputs |-> 0, number_of_gates |-> 1,
            domain_separator |-> <<1>>, poseidon_constants |-> c], 0) :
        c \in PoseidonConstants}
VerifierKeys ==
    {[selector_c_commitment |-> 1, transcript_seed |-> t] : t \in {0, 1}}

-----------------------------------------------------------------------------
(* The calls *)

\* The ScalarsAndBases values of the program.
Objects == {"a", "b"}

\* ScalarsAndBases::new
ScalarsAndBases_new == {}

Init ==
    /\ op = "init"
    /\ args = [none |-> TRUE]
    /\ result = Ok(<<>>)
    /\ locals = NoLocals
    /\ base_scalar_map = [x \in Objects |-> ScalarsAndBases_new]
    /\ pushed = [x \in Objects |-> <<>>]

\* A call is made by a caller that holds no result yet; its outcome is final.
Idle == op = "init"

Call_setup ==
    /\ UNCHANGED <<base_scalar_map, pushed>>
    /\ Idle
    /\ \E info \in SetupInfos, rng \in Rngs :
        /\ op' = "setup"
        /\ args' = [info |-> info, rng |-> rng]
        /\ result' = Ok(setup(info, rng))
        /\ locals' = NoLocals

Call_encode ==
    /\ UNCHANGED <<base_scalar_map, pushed>>
    /\ Idle
    /\ \E pp \in PublicParametersSet, circuit \in Circuits, randomness_c \in F :
        /\ op' = "encode"
        /\ args' = [pp |-> pp, circuit |-> circuit, randomness_c |-> randomness_c]
        /\ result' = encode(pp, circuit, randomness_c)
        /\ locals' =
              IF IsOk(result')
              THEN [sponge |-> squeezed_once(encode_sponge(pp, circuit, randomness_c)),
                    challenge |-> 0]
              ELSE NoLocals

Call_verifier ==
    /\ UNCHANGED <<base_scalar_map, pushed>>
    /\ Idle
    /\ \E pp \in VerifierParameters, vk \in VerifierKeys, k \in 0..MaxCols :
       \E left \in FoldInstances(k), right \in FoldInstances(k), message \in Commitment :
        /\ op' = "verifier"
        /\ args' = [public_parameters |-> pp, verifier_key |-> vk,
                    left_instance |-> left, right_instance |-> right,
                    prover_message |-> message]
        /\ result' = verifier(pp, vk, left, right, message)
        /\ locals' = [sponge |-> squeezed_once(verifier_sponge(pp, vk, left, right, message)),
                      challenge |-> verifier_challenge(pp, vk, left, right, message)]

Call_instance_column ==
    /\ UNCHANGED <<base_scalar_map, pushed>>
    /\ Idle
    /\ \E self \in AccessorInstances, column_index \in Indices :
        /\ op' = "instance_column"
        /\ args' = [self |-> self, index |-> column_index]
        /\ result' = instance_column(self, column_index)
        /\ locals' = NoLocals

Call_instance_row ==
    /\ UNCHANGED <<base_scalar_map, pushed>>
    /\ Idle
    /\ \E self \in AccessorInstances, row_index \in Indices :
        /\ op' = "instance_row"
        /\ args' = [self |-> self, index |-> row_index]
        /\ result' = instance_row(self, row_index)
        /\ locals' = NoLocals

Call_single_witness_commitment ==
    /\ UNCHANGED <<base_scalar_map, pushed>>
    /\ Idle
    /\ \E self \in AccessorInstances, column_index \in Indices :
        /\ op' = "single_witness_commitment"
        /\ args' = [self |-> self, index |-> column_index]
        /\ result' = single_witness_commitment(self, column_index)
        /\ locals' = NoLocals

Call_witness_column ==
    /\ UNCHANGED <<base_scalar_map, pushed>>
    /\ Idle
    /\ \E self \in AccessorWitnesses, column_index \in Indices :
        /\ op' = "witness_column"
        /\ args' = [self |-> self, index |-> column_index]
        /\ result' = witness_column(self, column_index)
        /\ locals' = NoLocals

Call_witness_row ==
    /\ UNCHANGED <<base_scalar_map, pushed>>
    /\ Idle
    /\ \E self \in AccessorWitnesses, row_index \in Indices :
        /\ op' = "witness_row"
        /\ args' = [self |-> self, index |-> row_index]
        /\ result' = witness_row(self, row_index)
        /\ locals' = NoLocals

Call_witness_column_with_rand ==
    /\ UNCHANGED <<base_scalar_map, pushed>>
    /\ Idle
    /\ \E self \in AccessorWitnesses, column_index \in Indices :
        /\ op' = "witness_column_with_rand"
        /\ args' = [self |-> self, index |-> column_index]
        /\ result' = witness_column_with_rand(self, column_index)
        /\ locals' = NoLocals

Next ==
    \/ Call_setup
    \/ Call_encode
    \/ Call_verifier
    \/ Call_instance_column
    \/ Call_instance_row
    \/ Call_single_witness_commitment
    \/ Call_witness_column
    \/ Call_witness_row
    \/ Call_witness_column_with_rand

Spec == Init /\ [][Next]_vars

-----------------------------------------------------------------------------
(* Properties of the verifier *)

\* C1: the folded instance the verifier returns has slack_commitment
\* L.slack_commitment + r*T + r^2*R.slack_commitment, r being the challenge the
\* verifier derived and T the prover message.
C1_SlackCommitmentFoldsCrossTerm ==
    op = "verifier" =>
        /\ IsOk(result)
        /\ result.value.slack_commitment =
              (args.left_instance.slack_commitment
                 + locals.challenge * args.prover_message
                 + locals.challenge * locals.challenge
                     * args.right_instance.slack_commitment) % Modulus

\* C2: the folded instance the verifier returns has scaling_factor
\* L.scaling_factor + r*R.scaling_factor and, at every index i, witness commitment
\* L.witness_commitments[i] + r*R.witness_commitments[i], with as many witness
\* commitments as the two inputs.
C2_ScalingAndWitnessCommitmentsFoldLinearly ==
    op = "verifier" =>
        LET L == args.left_instance
            R == args.right_instance
            r == locals.challenge
        IN  /\ IsOk(result)
            /\ result.value.scaling_factor
                  = (L.scaling_factor + r * R.scaling_factor) % Modulus
            /\ Len(result.value.witness_commitments) = Len(L.witness_commitments)
            /\ Len(result.value.witness_commitments) = Len(R.witness_commitments)
            /\ \A i \in 1..Len(L.witness_commitments) :
                  result.value.witness_commitments[i]
                      = (L.witness_commitments[i] + r * R.witness_commitments[i])
                            % Modulus

\* A fold of two instances with two witness commitments each, the right one
\* with a nonzero scaling factor, under a challenge other than 0 and 1.
C2_Witness ==
    /\ op = "verifier"
    /\ IsOk(result)
    /\ Len(args.left_instance.witness_commitments) = 2
    /\ args.right_instance.scaling_factor # 0
    /\ args.right_instance.witness_commitments # args.left_instance.witness_commitments
    /\ locals.challenge > 1

\* C3: the verifier absorbs into a fresh sponge, in this order, the domain
\* separator, the verifier key, the left instance, the right instance and the
\* prover message, nothing else, and squeezes one field element.
C3_AbsorbsDomainSeparatorFirst ==
    op = "verifier" =>
        /\ locals.sponge.constants = args.public_parameters.poseidon_constants
        /\ locals.sponge.absorbed =
              << Bytes_to_sponge(args.public_parameters.domain_separator),
                 VerifierKey_to_sponge(args.verifier_key),
                 RelaxedPLONKInstance_to_sponge(args.left_instance),
                 RelaxedPLONKInstance_to_sponge(args.right_instance),
                 Commitment_to_sponge(args.prover_message) >>
        /\ locals.sponge.squeezed = 1

-----------------------------------------------------------------------------
(* Properties of the accessors *)

\* C5: column(i) of a matrix of n columns (through instance_column and
\* witness_column) returns Err(IndexOutOfBounds) exactly when i >= n, also at
\* i = n, and a copy of column i when i < n.
C5_ColumnErrExactlyWhenOutOfBounds ==
    op \in {"instance_column", "witness_column"} =>
        LET matrix == IF op = "instance_column" THEN args.self.plonk_instance
                      ELSE args.self.plonk_witness
        IN  IF args.index >= Len(matrix)
            THEN result = Err(IndexOutOfBounds)
            ELSE result = Ok(matrix[args.index + 1])

\* C6: row(i) of a matrix of at least one column, all columns of length m
\* (through instance_row and witness_row), returns Err(IndexOutOfBounds) exactly
\* when i >= m, also at i = m, and otherwise the i-th entries of the columns in
\* column order.
C6_RowErrExactlyWhenOutOfBounds ==
    (op \in {"instance_row", "witness_row"}) =>
        LET matrix == IF op = "instance_row" THEN args.self.plonk_instance
                      ELSE args.self.plonk_witness
        IN  Len(matrix) >= 1 =>
              IF args.index >= Len(matrix[1])
              THEN result = Err(IndexOutOfBounds)
              ELSE result = Ok([c \in 1..Len(matrix) |-> matrix[c][args.index + 1]])

\* C7: single_witness_commitment(i) of an instance with k witness commitments
\* returns Err(IndexOutOfBounds) when i >= k and witness_commitments[i] when
\* i < k.
C7_SingleWitnessCommitmentErrWhenOutOfBounds ==
    op = "single_witness_commitment" =>
        IF args.index >= Len(args.self.witness_commitments)
        THEN result = Err(IndexOutOfBounds)
        ELSE result = Ok(args.self.witness_commitments[args.index + 1])

\* C8: witness_column_with_rand(i) returns either the pair of witness column i
\* and commitment_hidings[i], or Err(IndexOutOfBounds); it returns the error for
\* every i that is no witness column index.
C8_ColumnWithRandIsPairOrErr ==
    op = "witness_column_with_rand" =>
        IF args.index >= Len(args.self.plonk_witness)
        THEN result = Err(IndexOutOfBounds)
        ELSE result = Ok(<<args.self.plonk_witness[args.index + 1],
                           args.self.commitment_hidings[args.index + 1]>>)

-----------------------------------------------------------------------------
(* Properties of encode *)

\* C9: encode returns Err(IndexOutOfBounds) for every circuit with fewer than 5
\* selector columns (0, 1, 2, 3 or 4).
C9_EncodeErrBelowFiveSelectors ==
    (op = "encode" /\ Len(args.circuit.selectors) < 5) =>
        result = Err(IndexOutOfBounds)

\* C10: for parameters produced by setup with number_of_gates = n and a circuit
\* of five selector columns of length n, encode returns Ok((pk, vk)) with
\* vk.selector_c_commitment the commitment to q_C under the selectors-and-slack
\* key with the blinding r_C of the call, pk.verifier_key = vk, pk.circuit the
\* circuit and pk.selector_c_commit_randomness = r_C.
C10_EncodeCommitsToConstantSelector ==
    (/\ op = "encode"
     /\ Len(args.circuit.selectors) = 5
     /\ \A c \in 1..5 : Len(args.circuit.selectors[c]) = args.pp.number_of_gates)
    =>
        /\ IsOk(result)
        /\ LET pk == result.value[1]
               vk == result.value[2]
               q_C == args.circuit.selectors[CONSTANT_SELECTOR_INDEX + 1]
           IN  /\ Ok(vk.selector_c_commitment)
                     = Commit(args.pp.commit_key_selectors_and_slack, q_C,
                              args.randomness_c)
               /\ pk.verifier_key = vk
               /\ pk.circuit = args.circuit
               /\ pk.selector_c_commit_randomness = args.randomness_c

-----------------------------------------------------------------------------
(* Properties of setup *)

\* C11: setup(info, rng) returns public parameters whose witness commit key is
\* a key for vectors of length exactly info.number_of_gates, whose
\* selectors-and-slack commit key is a key for length exactly
\* info.number_of_gates + info.number_of_public_inputs + 1, and whose
\* number_of_gates, number_of_public_inputs, domain_separator and
\* poseidon_constants are those of info.
C11_SetupSizesKeysAndCopiesInfo ==
    op = "setup" =>
        /\ IsOk(result)
        /\ LET pp == result.value
               info == args.info
           IN  /\ pp.commit_key_witness.len = info.number_of_gates
               /\ Len(pp.commit_key_witness.g) = info.number_of_gates
               /\ pp.commit_key_selectors_and_slack.len =
                     info.number_of_gates + info.number_of_public_inputs + 1
               /\ Len(pp.commit_key_selectors_and_slack.g) =
                     info.number_of_gates + info.number_of_public_inputs + 1
               /\ pp.number_of_gates = info.number_of_gates
               /\ pp.number_of_public_inputs = info.number_of_public_inputs
               /\ pp.domain_separator = info.domain_separator
               /\ pp.poseidon_constants = info.poseidon_constants

\* setup has returned parameters for a circuit with gates and a public input.
C11_Witness ==
    /\ op = "setup"
    /\ IsOk(result)
    /\ args.info.number_of_gates = MaxGates
    /\ args.info.number_of_public_inputs = 1
    /\ args.info.domain_separator # <<>>
    /\ result.value.commit_key_selectors_and_slack.len = MaxGates + 2

-----------------------------------------------------------------------------
(* The relaxed PLONK relation and the prover.  The body of prover is not      *)
(* written in the repository (todo!(), folding_scheme.rs:192-201) and no code *)
(* evaluates the relation; both are modelled on sections 3, 4.2 and 8 of the  *)
(* specification.  The witness columns 0, 1, 2 are the left, right and output *)
(* wires w_L, w_R, w_O of the gates; row i of the five selectors is gate i.   *)

\* The relaxed gate polynomial of one gate, q its five selector entries:
\* u*(q_L*a + q_R*b + q_O*c) + q_M*a*b + u^2*q_C.  The slack of the gate is its
\* value, so that u = 1 and slack 0 is the PLONK gate equation.
gate_value(q, u, a, b, c) ==
    (u * (q[LEFT_SELECTOR_INDEX + 1] * a + q[RIGHT_SELECTOR_INDEX + 1] * b
            + q[OUTPUT_SELECTOR_INDEX + 1] * c)
       + q[MULTIPLICATION_SELECTOR_INDEX + 1] * a * b
       + u * u * q[CONSTANT_SELECTOR_INDEX + 1]) % Modulus

\* gate_cross_term without the term of the constant selector.
gate_cross_term_without_constant(q, u1, w1, u2, w2) ==
    (u1 * (q[LEFT_SELECTOR_INDEX + 1] * w2[1] + q[RIGHT_SELECTOR_INDEX + 1] * w2[2]
             + q[OUTPUT_SELECTOR_INDEX + 1] * w2[3])
       + u2 * (q[LEFT_SELECTOR_INDEX + 1] * w1[1] + q[RIGHT_SELECTOR_INDEX + 1] * w1[2]
                 + q[OUTPUT_SELECTOR_INDEX + 1] * w1[3])
       + q[MULTIPLICATION_SELECTOR_INDEX + 1] * (w1[1] * w2[2] + w2[1] * w1[2])) % Modulus

\* The coefficient of r^1 of gate_value at (u1 + r*u2, w1 + r*w2), w1 and w2 the
\* wire values <<a, b, c>> of the gate on the left and on the right.
gate_cross_term(q, u1, w1, u2, w2) ==
    (u1 * (q[LEFT_SELECTOR_INDEX + 1] * w2[1] + q[RIGHT_SELECTOR_INDEX + 1] * w2[2]
             + q[OUTPUT_SELECTOR_INDEX + 1] * w2[3])
       + u2 * (q[LEFT_SELECTOR_INDEX + 1] * w1[1] + q[RIGHT_SELECTOR_INDEX + 1] * w1[2]
                 + q[OUTPUT_SELECTOR_INDEX + 1] * w1[3])
       + q[MULTIPLICATION_SELECTOR_INDEX + 1] * (w1[1] * w2[2] + w2[1] * w1[2])
       + 2 * u1 * u2 * q[CONSTANT_SELECTOR_INDEX + 1]) % Modulus

\* Row i (from 1) of a matrix given as columns.
matrix_row(columns, i) == [c \in 1..Len(columns) |-> columns[c][i]]

\* The first outcome of a sequence of outcomes that is not Ok, or Ok of the values.
collect_results(rs) ==
    IF \E i \in 1..Len(rs) : ~IsOk(rs[i])
    THEN rs[CHOOSE i \in 1..Len(rs) :
                /\ ~IsOk(rs[i])
                /\ \A j \in 1..(i - 1) : IsOk(rs[j])]
    ELSE Ok([i \in 1..Len(rs) |-> rs[i].value])

\* Step 1: T_vec, as long as the slack vector; the cross term of gate i in entry
\* i, and 0 in the entries past the gates.
cross_term_vector(selectors, left_instance, left_wires, right_instance, right_wires, slack_len) ==
    [i \in 1..slack_len |->
        IF i <= Len(selectors[1])
        THEN gate_cross_term(matrix_row(selectors, i),
                             left_instance.scaling_factor, matrix_row(left_wires, i),
                             right_instance.scaling_factor, matrix_row(right_wires, i))
        ELSE 0]

\* l + challenge * r over the integers modulo p, entry by entry for vectors.
fold_scalar_mod(p, l, r, challenge) == (l + challenge * r) % p
fold_vector_mod(p, l, r, challenge) ==
    [i \in 1..Len(l) |-> fold_scalar_mod(p, l[i], r[i], challenge)]

\* fold_vector with the left vector scaled in place of the right one.
fold_vector_swapped(l, r, challenge) == fold_vector_mod(Modulus, r, l, challenge)

fold_scalar(l, r, challenge) == fold_scalar_mod(Modulus, l, r, challenge)
fold_vector(l, r, challenge) == fold_vector_mod(Modulus, l, r, challenge)

\* Steps 4 and 5: the folded witness, from the challenge and T_vec.
fold_witnesses(left_witness, right_witness, t_vec, challenge) ==
    [plonk_witness |->
        [c \in 1..Len(left_witness.plonk_witness) |->
            fold_vector(left_witness.plonk_witness[c],
                        right_witness.plonk_witness[c], challenge)],
     slack_vector |->
        [i \in 1..Len(left_witness.slack_vector) |->
            (left_witness.slack_vector[i] + challenge * t_vec[i]
               + challenge * challenge * right_witness.slack_vector[i]) % Modulus],
     commitment_hidings |->
        fold_vector(left_witness.commitment_hidings,
                    right_witness.commitment_hidings, challenge)]

\* Step 6: the folded instance, from the challenge and the prover message T.
prover_fold_instances(left_instance, right_instance, prover_message, challenge) ==
    [left_instance EXCEPT
        !.scaling_factor = fold_scalar(@, right_instance.scaling_factor, challenge),
        !.slack_commitment =
            CommAdd(CommAdd(@, CommMul(prover_message, challenge)),
                    CommMul(right_instance.slack_commitment,
                            FMul(challenge, challenge))),
        !.witness_commitments =
            fold_vector(@, right_instance.witness_commitments, challenge)]

\* prover.  blinding is the fresh blinding of step 2, drawn by the caller of this
\* operator.  An error of an accessor or of commit is returned as it is.
prover(public_parameters, prover_key, left_instance, left_witness, right_instance, right_witness, blinding) ==
    LET selectors ==
            collect_results([k \in 1..5 |-> single_selector(prover_key.circuit, k - 1)])
        left_wires == collect_results([c \in 1..3 |-> witness_column(left_witness, c - 1)])
        right_wires == collect_results([c \in 1..3 |-> witness_column(right_witness, c - 1)])
    IN  IF ~IsOk(selectors) THEN selectors
        ELSE IF ~IsOk(left_wires) THEN left_wires
        ELSE IF ~IsOk(right_wires) THEN right_wires
        ELSE
        LET t_vec == cross_term_vector(selectors.value, left_instance, left_wires.value,
                                       right_instance, right_wires.value,
                                       Len(left_witness.slack_vector))
            commitment_t ==
                Commit(public_parameters.commit_key_selectors_and_slack, t_vec, blinding)
        IN  IF ~IsOk(commitment_t) THEN commitment_t
            ELSE
            LET challenge ==
                    prover_challenge(public_parameters, prover_key, left_instance,
                                     right_instance, commitment_t.value)
            IN  Ok(<<prover_fold_instances(left_instance, right_instance,
                                           commitment_t.value, challenge),
                     fold_witnesses(left_witness, right_witness, t_vec, challenge),
                     commitment_t.value>>)

\* The relaxed PLONK relation between a circuit, a relaxed instance and a relaxed
\* witness: every gate has its slack as value, the slack past the gates is 0, and
\* witness commitment c opens to witness column c with hiding c.
satisfies_relaxed_plonk(public_parameters, circuit, instance, witness) ==
    /\ Len(circuit.selectors) = 5
    /\ Len(witness.plonk_witness) = 3
    /\ Len(instance.witness_commitments) = 3
    /\ Len(witness.commitment_hidings) = 3
    /\ \A c \in 1..3 : Len(witness.plonk_witness[c]) = Len(circuit.selectors[1])
    /\ Len(witness.slack_vector) >= Len(circuit.selectors[1])
    /\ \A i \in 1..Len(witness.slack_vector) :
          witness.slack_vector[i] =
              IF i <= Len(circuit.selectors[1])
              THEN LET w == matrix_row(witness.plonk_witness, i)
                   IN  gate_value(matrix_row(circuit.selectors, i),
                                  instance.scaling_factor, w[1], w[2], w[3])
              ELSE 0
    /\ \A c \in 1..3 :
          Ok(instance.witness_commitments[c]) =
              Commit(public_parameters.commit_key_witness, witness.plonk_witness[c],
                     witness.commitment_hidings[c])

\* A trivial pair: scaling factor 1 and an all-zero slack vector.
is_trivial(instance, witness) ==
    /\ instance.scaling_factor = 1
    /\ \A i \in 1..Len(witness.slack_vector) : witness.slack_vector[i] = 0

-----------------------------------------------------------------------------
(* The arguments prover is called with *)

\* The selector entries <<q_L, q_R, q_O, q_M, q_C>> of three gates: c = a + b,
\* c = a * b and c = a + 1.
GateKinds ==
    << <<1, 1, Modulus - 1, 0, 0>>,
       <<0, 0, Modulus - 1, 1, 0>>,
       <<1, 0, Modulus - 1, 0, 1>> >>

\* Circuits of n gates: gate i is of kind 1 + (k + i) % 3.
ProverCircuits(n) ==
    {[selectors |-> [c \in 1..5 |-> [i \in 1..n |-> GateKinds[1 + ((k + i) % 3)][c]]],
      copy_constraint |-> <<>>] : k \in 0..2}

\* Wire values of the n gates of a circuit: a and b from the seed s, and c the
\* output the gate computes, plus d (d # 0 is an execution that is not one of the
\* circuit).
Wires(circuit, n, s, d) ==
    LET a == Vec(n, s)
        b == Vec(n, 2 * s + 1)
    IN  << a, b,
           [i \in 1..n |->
               (gate_value(matrix_row(circuit.selectors, i), 1, a[i], b[i], 0) + d)
                   % Modulus] >>

\* The relaxed pair of the wire values under the scaling factor u: the slack of
\* every gate is the value of its gate polynomial, and the commitments are the
\* commitments to the columns.
RelaxedPair(pp, circuit, wires, u, s) ==
    LET n == Len(circuit.selectors[1])
        hidings == Vec(3, s + 1)
        slack == [i \in 1..pp.commit_key_selectors_and_slack.len |->
                     IF i <= n
                     THEN gate_value(matrix_row(circuit.selectors, i), u,
                                     wires[1][i], wires[2][i], wires[3][i])
                     ELSE 0]
    IN  [instance |->
            [plonk_instance |-> Matrix(3, pp.number_of_public_inputs + 1, s),
             scaling_factor |-> u,
             slack_commitment |->
                Commit(pp.commit_key_selectors_and_slack, slack, 0).value,
             witness_commitments |->
                [c \in 1..3 |->
                    Commit(pp.commit_key_witness, wires[c], hidings[c]).value]],
         witness |->
            [plonk_witness |-> wires,
             slack_vector |-> slack,
             commitment_hidings |-> hidings]]

\* The pairs of one circuit: every seed, with and without a wrong output, under
\* every scaling factor.
RelaxedPairs(pp, circuit) ==
    {RelaxedPair(pp, circuit, Wires(circuit, pp.number_of_gates, s, d), u, s) :
        s \in F, d \in {0, 1}, u \in F}

ProverParameters ==
    {setup([number_of_public_inputs |-> MaxPublicInputs, number_of_gates |-> n,
            domain_separator |-> <<1>>, poseidon_constants |-> 0], 0) :
        n \in 1..MaxGates}

ProverKeys(circuit) ==
    {[circuit |-> circuit, verifier_key |-> vk, selector_c_commit_randomness |-> 0] :
        vk \in VerifierKeys}

-----------------------------------------------------------------------------
(* prover, and verifier on what prover returned *)

Call_prover ==
    /\ UNCHANGED <<base_scalar_map, pushed>>
    /\ Idle
    /\ \E pp \in ProverParameters :
       \E circuit \in ProverCircuits(pp.number_of_gates) :
       \E pk \in ProverKeys(circuit), blinding \in F :
       \E left \in RelaxedPairs(pp, circuit), right \in RelaxedPairs(pp, circuit) :
        /\ op' = "prover"
        /\ args' = [public_parameters |-> pp, prover_key |-> pk,
                    left_instance |-> left.instance, left_witness |-> left.witness,
                    right_instance |-> right.instance,
                    right_witness |-> right.witness, blinding |-> blinding]
        /\ result' = prover(pp, pk, left.instance, left.witness, right.instance,
                            right.witness, blinding)
        /\ locals' =
              IF IsOk(result')
              THEN [sponge |-> NoSponge,
                    challenge |-> prover_challenge(pp, pk, left.instance,
                                                   right.instance, result'.value[3])]
              ELSE NoLocals

\* The verifier is given the instances prover folded and the message it returned.
Call_verifier_after_prover ==
    /\ UNCHANGED <<base_scalar_map, pushed>>
    /\ op = "prover"
    /\ IsOk(result)
    /\ LET pp == args.public_parameters
           vk == args.prover_key.verifier_key
           left == args.left_instance
           right == args.right_instance
           message == result.value[3]
       IN  /\ op' = "verifier_after_prover"
           /\ args' = [public_parameters |-> pp, verifier_key |-> vk,
                       left_instance |-> left, right_instance |-> right,
                       prover_message |-> message,
                       folded_instance |-> result.value[1],
                       folded_witness |-> result.value[2]]
           /\ result' = verifier(pp, vk, left, right, message)
           /\ locals' = [sponge |-> squeezed_once(verifier_sponge(pp, vk, left, right, message)),
                         challenge |-> verifier_challenge(pp, vk, left, right, message)]

ProverNext ==
    \/ Call_prover
    \/ Call_verifier_after_prover

ProverSpec == Init /\ [][ProverNext]_vars

-----------------------------------------------------------------------------
(* Properties of prover *)

\* C12: prover returns a folded witness whose column i is, entry by entry,
\* L_wit.column(i) + r * R_wit.column(i) and whose hiding randomness i is
\* L_hiding[i] + r * R_hiding[i], r being the challenge prover derived; over the
\* integers modulo 97 the columns [2,3,5,7] and [1,1,2,3] fold under r = 5 to
\* [7,8,15,22], and the scaling factors 1 and 1 to 6.
C12_ProverFoldsWitnessLinearly ==
    /\ op = "prover" =>
          /\ IsOk(result)
          /\ LET r == locals.challenge
                 L_wit == args.left_witness
                 R_wit == args.right_witness
                 folded_inst == result.value[1]
                 folded_wit == result.value[2]
             IN  /\ Len(folded_wit.plonk_witness) = Len(L_wit.plonk_witness)
                 /\ \A c \in 1..Len(L_wit.plonk_witness) :
                       /\ Len(folded_wit.plonk_witness[c]) = Len(L_wit.plonk_witness[c])
                       /\ \A i \in 1..Len(L_wit.plonk_witness[c]) :
                             folded_wit.plonk_witness[c][i] =
                                 (L_wit.plonk_witness[c][i]
                                    + r * R_wit.plonk_witness[c][i]) % Modulus
                 /\ Len(folded_wit.commitment_hidings) = Len(L_wit.commitment_hidings)
                 /\ \A c \in 1..Len(L_wit.commitment_hidings) :
                       folded_wit.commitment_hidings[c] =
                           (L_wit.commitment_hidings[c]
                              + r * R_wit.commitment_hidings[c]) % Modulus
                 /\ folded_inst.scaling_factor =
                       (args.left_instance.scaling_factor
                          + r * args.right_instance.scaling_factor) % Modulus
    /\ fold_vector_mod(97, <<2, 3, 5, 7>>, <<1, 1, 2, 3>>, 5) = <<7, 8, 15, 22>>
    /\ fold_scalar_mod(97, 1, 1, 5) = 6

\* prover has folded two different witnesses under a challenge other than 0 and 1.
C12_Witness ==
    /\ op = "prover"
    /\ IsOk(result)
    /\ locals.challenge > 1
    /\ args.left_witness.plonk_witness # args.right_witness.plonk_witness
    /\ \E i \in 1..Len(args.right_witness.plonk_witness[1]) :
          args.right_witness.plonk_witness[1][i] # 0
    /\ result.value[2].plonk_witness # args.left_witness.plonk_witness

\* C13: when prover returns (folded_inst, folded_wit, T), verifier on the same
\* instances and T returns Ok(instance) with instance equal to folded_inst in
\* scaling factor, slack commitment and every witness commitment.
C13_VerifierAgreesWithProver ==
    op = "verifier_after_prover" =>
        /\ IsOk(result)
        /\ result.value.scaling_factor = args.folded_instance.scaling_factor
        /\ result.value.slack_commitment = args.folded_instance.slack_commitment
        /\ result.value.witness_commitments = args.folded_instance.witness_commitments

-----------------------------------------------------------------------------
(* Add and Mul of RelaxedPLONKInstance, called on their own *)

\* self + rhs
Call_add ==
    /\ UNCHANGED <<base_scalar_map, pushed>>
    /\ Idle
    /\ \E k \in 0..MaxCols :
       \E self \in FoldInstances(k), rhs \in FoldInstances(k) :
        /\ op' = "add"
        /\ args' = [self |-> self, rhs |-> rhs]
        /\ result' = Ok(RelaxedPLONKInstance_add(self, rhs))
        /\ locals' = NoLocals

\* self * rhs
Call_mul ==
    /\ UNCHANGED <<base_scalar_map, pushed>>
    /\ Idle
    /\ \E k \in 0..MaxCols :
       \E self \in FoldInstances(k), rhs \in F :
        /\ op' = "mul"
        /\ args' = [self |-> self, rhs |-> rhs]
        /\ result' = Ok(RelaxedPLONKInstance_mul(self, rhs))
        /\ locals' = NoLocals

AlgebraNext ==
    \/ Call_add
    \/ Call_mul

AlgebraSpec == Init /\ [][AlgebraNext]_vars

\* C15: A + B and B + A have equal scaling factor, equal slack commitment and
\* equal witness commitments at every index, for relaxed instances A and B with
\* as many witness commitments.
C15_AddIsCommutative ==
    op = "add" =>
        LET sum == result.value
            swapped == RelaxedPLONKInstance_add(args.rhs, args.self)
        IN  /\ sum.scaling_factor = swapped.scaling_factor
            /\ sum.slack_commitment = swapped.slack_commitment
            /\ Len(sum.witness_commitments) = Len(swapped.witness_commitments)
            /\ \A i \in 1..Len(sum.witness_commitments) :
                  sum.witness_commitments[i] = swapped.witness_commitments[i]

\* Two instances that differ in every field were added.
C15_Witness ==
    /\ op = "add"
    /\ args.self.scaling_factor # args.rhs.scaling_factor
    /\ args.self.slack_commitment # args.rhs.slack_commitment
    /\ Len(args.self.witness_commitments) = MaxCols
    /\ args.self.witness_commitments[1] # args.rhs.witness_commitments[1]
    /\ result.value.slack_commitment # args.self.slack_commitment

\* C16: A * c has the scaling factor, the slack commitment and every witness
\* commitment of A scaled by c, and A * (c1 + c2) equals A * c1 + A * c2 in
\* scaling factor, slack commitment and every witness commitment.
C16_MulScalesAndDistributes ==
    op = "mul" =>
        LET A == args.self
            c == args.rhs
            product == result.value
        IN  /\ product.scaling_factor = (A.scaling_factor * c) % Modulus
            /\ product.slack_commitment = CommMul(A.slack_commitment, c)
            /\ Len(product.witness_commitments) = Len(A.witness_commitments)
            /\ \A i \in 1..Len(A.witness_commitments) :
                  product.witness_commitments[i] = CommMul(A.witness_commitments[i], c)
            /\ \A c1 \in F, c2 \in F :
                  FAdd(c1, c2) = c =>
                      LET sum == RelaxedPLONKInstance_add(
                                     RelaxedPLONKInstance_mul(A, c1),
                                     RelaxedPLONKInstance_mul(A, c2))
                      IN  /\ product.scaling_factor = sum.scaling_factor
                          /\ product.slack_commitment = sum.slack_commitment
                          /\ product.witness_commitments = sum.witness_commitments

\* An instance with no zero field was multiplied by a scalar other than 0 and 1.
C16_Witness ==
    /\ op = "mul"
    /\ args.rhs > 1
    /\ args.self.scaling_factor # 0
    /\ args.self.slack_commitment # 0
    /\ Len(args.self.witness_commitments) = MaxCols
    /\ args.self.witness_commitments[1] # 0
    /\ result.value.scaling_factor # args.self.scaling_factor

-----------------------------------------------------------------------------
(* Outcomes of the protocol operations *)

\* C19: encode, prover and verifier return to their caller with Ok or Err for
\* every input, none of them aborts, and an error of an accessor or of the
\* commitment scheme is the error encode returns.
C19_OperationsReturnAResult ==
    /\ op \in {"encode", "prover", "verifier", "verifier_after_prover"} =>
          (IsOk(result) \/ IsErr(result))
    /\ op = "encode" =>
          LET c_selector == single_selector(args.circuit, CONSTANT_SELECTOR_INDEX)
          IN  /\ IsErr(c_selector) => result = c_selector
              /\ IsOk(c_selector) =>
                    LET commitment ==
                            Commit(args.pp.commit_key_selectors_and_slack,
                                   c_selector.value, args.randomness_c)
                    IN  IsErr(commitment) => result = commitment

-----------------------------------------------------------------------------
(* UnivariateIPA: the wrapper around the inner-product-argument polynomial     *)
(* commitment of arkworks (jellyfish/primitives/src/pcs/univariate_ipa).      *)
(* The group G is the commitment group above.                                 *)

\* The SRS has 2^k generators, k at most MaxLogSize; trim is asked for degrees up
\* to MaxDegree.
MaxLogSize == 2
MaxDegree == 4

RECURSIVE power_of_two_from(_, _)
power_of_two_from(p, n) == IF p >= n THEN p ELSE power_of_two_from(2 * p, n)

\* usize::next_power_of_two: the smallest power of two that is at least n.
next_power_of_two(n) == power_of_two_from(1, n)

\* WithMaxDegree for ipa_pc::UniversalParams
max_degree(srs) == Len(srs.comm_key) - 1

TrimmingDegreeTooLarge == "TrimmingDegreeTooLarge"

\* ipa_pc::InnerProductArgPC::trim(srs, supported_degree, 0, None): the degree is
\* rounded up so that the key has a power of two of generators; the committer
\* key and the verifier key are the same.
ArkworksIPA_trim(srs, supported_degree) ==
    LET degree == next_power_of_two(supported_degree + 1) - 1
    IN  IF degree > max_degree(srs) THEN Err(TrimmingDegreeTooLarge)
        ELSE LET ck == [comm_key |-> SubSeq(srs.comm_key, 1, degree + 1),
                        h |-> srs.h,
                        s |-> srs.s,
                        max_degree |-> max_degree(srs)]
             IN  Ok(<<ck, ck>>)

\* From<ipa_pc::CommitterKey> with h copied into s.
ProverParam_from_s_is_h(arkworks_commit_key) ==
    [comm_key |-> arkworks_commit_key.comm_key,
     h |-> arkworks_commit_key.h,
     s |-> arkworks_commit_key.h,
     max_degree |-> arkworks_commit_key.max_degree]

\* impl From<ipa_pc::CommitterKey<G>> for ProverParam<G>
ProverParam_from(arkworks_commit_key) ==
    [comm_key |-> arkworks_commit_key.comm_key,
     h |-> arkworks_commit_key.h,
     s |-> arkworks_commit_key.s,
     max_degree |-> arkworks_commit_key.max_degree]

\* UnivariateIPA::trim
UnivariateIPA_trim(srs, supported_degree) ==
    LET arkworks_keys == ArkworksIPA_trim(srs, supported_degree)
    IN  IF ~IsOk(arkworks_keys) THEN arkworks_keys
        ELSE Ok(<<ProverParam_from(arkworks_keys.value[1]),
                  ProverParam_from(arkworks_keys.value[2])>>)

\* The SRS of ipa_pc setup: 2^k generators, and the generators h and s.
UniversalParams ==
    {[comm_key |-> [i \in 1..n |-> 1 + ((seed + i) % (Modulus - 1))], h |-> h, s |-> s] :
        n \in {2^k : k \in 0..MaxLogSize},
        seed \in F, h \in Commitment, s \in Commitment}

Call_trim ==
    /\ UNCHANGED <<base_scalar_map, pushed>>
    /\ Idle
    /\ \E srs \in UniversalParams, supported_degree \in 0..MaxDegree :
        /\ op' = "trim"
        /\ args' = [srs |-> srs, supported_degree |-> supported_degree]
        /\ result' = UnivariateIPA_trim(srs, supported_degree)
        /\ locals' = NoLocals

IPANext ==
    \/ Call_trim

IPASpec == Init /\ [][IPANext]_vars

\* C20: for an SRS and a degree d that ipa_pc trim supports, UnivariateIPA::trim
\* returns prover and verifier parameters whose comm_key, h, s and max_degree are
\* those of the committer key and of the verifier key ipa_pc trim(srs, d, 0, None)
\* returns, and the prover and verifier parameters carry the same values.
C20_TrimReturnsTheArkworksKeys ==
    op = "trim" =>
        LET arkworks_keys == ArkworksIPA_trim(args.srs, args.supported_degree)
        IN  IsOk(arkworks_keys) =>
                /\ IsOk(result)
                /\ LET pk == result.value[1]
                       vk == result.value[2]
                       arkworks_pk == arkworks_keys.value[1]
                       arkworks_vk == arkworks_keys.value[2]
                   IN  /\ pk.comm_key = arkworks_pk.comm_key
                       /\ pk.h = arkworks_pk.h
                       /\ pk.s = arkworks_pk.s
                       /\ pk.max_degree = arkworks_pk.max_degree
                       /\ vk.comm_key = arkworks_vk.comm_key
                       /\ vk.h = arkworks_vk.h
                       /\ vk.s = arkworks_vk.s
                       /\ vk.max_degree = arkworks_vk.max_degree
                       /\ pk = vk

\* trim has cut an SRS with different h and s down to fewer generators.
C20_Witness ==
    /\ op = "trim"
    /\ IsOk(result)
    /\ args.srs.h # args.srs.s
    /\ Len(result.value[1].comm_key) < Len(args.srs.comm_key)
    /\ Len(result.value[1].comm_key) > 1
    /\ result.value[1].max_degree = Len(args.srs.comm_key) - 1

-----------------------------------------------------------------------------
(* ProverParam and ipa_pc::CommitterKey, one into the other *)

\* impl Into<ipa_pc::CommitterKey<G>> for &ProverParam<G>: `s: self.h`.
ProverParam_into(self) ==
    [comm_key |-> self.comm_key,
     h |-> self.h,
     s |-> self.h,
     max_degree |-> self.max_degree]

\* The committer keys ipa_pc trim returns.
CommitterKeys ==
    {ArkworksIPA_trim(srs, d).value[1] :
        <<srs, d>> \in {<<srs, d>> \in UniversalParams \X (0..MaxDegree) :
                          IsOk(ArkworksIPA_trim(srs, d))}}

\* ProverParam::from(key), then (&param).into()
Call_from_into ==
    /\ UNCHANGED <<base_scalar_map, pushed>>
    /\ Idle
    /\ \E arkworks_commit_key \in CommitterKeys :
        /\ op' = "from_into"
        /\ args' = [arkworks_commit_key |-> arkworks_commit_key]
        /\ result' = Ok(ProverParam_into(ProverParam_from(arkworks_commit_key)))
        /\ locals' = NoLocals

-----------------------------------------------------------------------------
(* The inner-product argument of ark_poly_commit::ipa_pc, as UnivariateIPA    *)
(* calls it: one polynomial, no degree bound, no hiding, opening challenge 1. *)
(* A polynomial is the sequence of its coefficients, lowest first, without    *)
(* trailing zeros (DensePolynomial).                                          *)

TooManyCoefficients == "TooManyCoefficients"
IncorrectInputLength == "IncorrectInputLength"
\* Option: None and Some(x).
None == <<>>
Some(x) == <<x>>

\* The inverse of a field element that has one.
FInv(x) == CHOOSE y \in F : FMul(x, y) = 1

\* Polynomial::degree
Polynomial_degree(polynomial) == IF polynomial = <<>> THEN 0 ELSE Len(polynomial) - 1

\* Polynomial::evaluate
evaluate(polynomial, point) ==
    LET value[j \in 0..Len(polynomial)] ==
            IF j = 0 THEN 0
            ELSE FAdd(FMul(value[j - 1], point), polynomial[Len(polynomial) - j + 1])
    IN  value[Len(polynomial)]

\* point^k
power(point, k) ==
    LET p[j \in 0..k] == IF j = 0 THEN 1 ELSE FMul(p[j - 1], point)
    IN  p[k]

\* ark_std::log2: the least k with 2^k >= n.
log2(n) == CHOOSE k \in 0..n : 2^k >= n /\ \A j \in 0..(k - 1) : 2^j < n

\* CommitterKey::supported_degree
CommitterKey_supported_degree(ck) == Len(ck.comm_key) - 1

\* sum of x[i] * y[i] in the field.
inner_product(x, y) ==
    LET acc[j \in 0..Len(x)] ==
            IF j = 0 THEN 0 ELSE FAdd(acc[j - 1], FMul(x[j], y[j]))
    IN  acc[Len(x)]

\* cm_commit without hiding: the multi-scalar multiplication of the key by the
\* scalars.
cm_commit(comm_key, scalars) == InnerProduct(comm_key, scalars)

\* compute_random_oracle_challenge: a field element set by the bytes hashed, and
\* one that has an inverse.
random_oracle_challenge(elems) ==
    IF Permute(0, elems) % 2 = 0 THEN 1 ELSE Modulus - 1

\* ipa_pc commit of one polynomial with hiding bound None.
ArkworksIPA_commit(ck, polynomial) ==
    IF Polynomial_degree(polynomial) > CommitterKey_supported_degree(ck) THEN Err(TooManyCoefficients)
    ELSE Ok(cm_commit(SubSeq(ck.comm_key, 1, Polynomial_degree(polynomial) + 1), polynomial))

RECURSIVE ipa_rounds(_, _, _, _, _, _, _)
\* The loop of ipa_pc open: each round halves the coefficients, the powers of the
\* point and the key, and adds an element to l_vec and to r_vec.
ipa_rounds(coeffs, z, key, h_prime, round_challenge, l_vec, r_vec) ==
    IF Len(coeffs) <= 1
    THEN [l_vec |-> l_vec, r_vec |-> r_vec, final_comm_key |-> key[1],
          c |-> coeffs[1], hiding_comm |-> None, rand |-> None]
    ELSE
    LET n == Len(coeffs)
        coeffs_l == SubSeq(coeffs, 1, n \div 2)
        coeffs_r == SubSeq(coeffs, n \div 2 + 1, n)
        z_l == SubSeq(z, 1, n \div 2)
        z_r == SubSeq(z, n \div 2 + 1, n)
        key_l == SubSeq(key, 1, n \div 2)
        key_r == SubSeq(key, n \div 2 + 1, n)
        l == CommAdd(cm_commit(key_l, coeffs_r),
                     CommMul(h_prime, inner_product(coeffs_r, z_l)))
        r == CommAdd(cm_commit(key_r, coeffs_l),
                     CommMul(h_prime, inner_product(coeffs_l, z_r)))
        challenge == random_oracle_challenge(<<round_challenge, l, r>>)
        challenge_inv == FInv(challenge)
    IN  ipa_rounds(
            [i \in 1..(n \div 2) |-> FAdd(coeffs_l[i], FMul(challenge_inv, coeffs_r[i]))],
            [i \in 1..(n \div 2) |-> FAdd(z_l[i], FMul(challenge, z_r[i]))],
            [i \in 1..(n \div 2) |-> CommAdd(key_l[i], CommMul(key_r[i], challenge))],
            h_prime, challenge, Append(l_vec, l), Append(r_vec, r))

\* ipa_pc open of one polynomial with the commitment to it, opening challenge 1
\* and empty randomness.
ArkworksIPA_open(ck, polynomial, commitment, point) ==
    IF Polynomial_degree(polynomial) > CommitterKey_supported_degree(ck) THEN Err(TooManyCoefficients)
    ELSE
    LET d == CommitterKey_supported_degree(ck)
        combined_v == evaluate(polynomial, point)
        round_challenge == random_oracle_challenge(<<commitment, point, combined_v>>)
        h_prime == CommMul(ck.h, round_challenge)
        coeffs == [i \in 1..(d + 1) |->
                      IF i <= Len(polynomial) THEN polynomial[i] ELSE 0]
        z == [i \in 1..(d + 1) |-> power(point, i - 1)]
    IN  Ok(ipa_rounds(coeffs, z, ck.comm_key, h_prime, round_challenge, <<>>, <<>>))

\* The round challenges the verifier derives from l_vec and r_vec.
round_challenges(first_challenge, l_vec, r_vec) ==
    LET challenge[j \in 0..Len(l_vec)] ==
            IF j = 0 THEN first_challenge
            ELSE random_oracle_challenge(<<challenge[j - 1], l_vec[j], r_vec[j]>>)
    IN  [j \in 1..Len(l_vec) |-> challenge[j]]

\* SuccinctCheckPolynomial::evaluate
check_poly_evaluate(challenges, point) ==
    LET log_d == Len(challenges)
        product[i \in 0..log_d] ==
            IF i = 0 THEN 1
            ELSE FMul(product[i - 1],
                      FAdd(1, FMul(power(point, 2^(log_d - i)), challenges[i])))
    IN  product[log_d]

\* SuccinctCheckPolynomial::compute_coeffs: coefficient k (from 0) is the product
\* of the challenges i whose bit 2^(log_d - i) is set in k.
check_poly_compute_coeffs(challenges) ==
    LET log_d == Len(challenges)
        coeff[k \in 0..(2^log_d - 1)] ==
            LET product[i \in 0..log_d] ==
                    IF i = 0 THEN 1
                    ELSE IF (k \div 2^(log_d - i)) % 2 = 1
                         THEN FMul(product[i - 1], challenges[i])
                         ELSE product[i - 1]
            IN  product[log_d]
    IN  [k \in 1..(2^log_d) |-> coeff[k - 1]]

\* ipa_pc succinct_check: the challenges of the check polynomial when the
\* folded commitment is the commitment to (proof.c, v') under
\* (proof.final_comm_key, h'), None otherwise.
succinct_check(vk, commitment, point, value, proof) ==
    LET hiding == proof.hiding_comm # None
        hiding_challenge ==
            random_oracle_challenge(<<commitment, point, value, proof.hiding_comm[1]>>)
        combined_commitment ==
            IF hiding
            THEN CommAdd(commitment,
                     CommAdd(CommMul(proof.hiding_comm[1], hiding_challenge),
                             CommMul(vk.s, (Modulus - proof.rand[1]) % Modulus)))
            ELSE commitment
        round_challenge ==
            random_oracle_challenge(<<combined_commitment, point, value>>)
        h_prime == CommMul(vk.h, round_challenge)
        challenges == round_challenges(round_challenge, proof.l_vec, proof.r_vec)
        round_commitment[j \in 0..Len(challenges)] ==
            IF j = 0 THEN CommAdd(combined_commitment, CommMul(h_prime, value))
            ELSE CommAdd(round_commitment[j - 1],
                         CommAdd(CommMul(proof.l_vec[j], FInv(challenges[j])),
                                 CommMul(proof.r_vec[j], challenges[j])))
        v_prime == FMul(check_poly_evaluate(challenges, point), proof.c)
        check_commitment_elem ==
            CommAdd(CommMul(proof.final_comm_key, proof.c), CommMul(h_prime, v_prime))
    IN  IF round_commitment[Len(challenges)] = check_commitment_elem
        THEN Some(challenges)
        ELSE None

\* ipa_pc check of one commitment, opening challenge 1.
ArkworksIPA_check(vk, commitment, point, value, proof) ==
    LET log_d == log2(CommitterKey_supported_degree(vk) + 1)
        check_poly == succinct_check(vk, commitment, point, value, proof)
        final_key == cm_commit(vk.comm_key, check_poly_compute_coeffs(check_poly[1]))
    IN  IF Len(proof.l_vec) # Len(proof.r_vec) \/ Len(proof.l_vec) # log_d
        THEN Err(IncorrectInputLength)
        ELSE IF check_poly = None THEN Ok(FALSE)
        ELSE Ok(final_key = proof.final_comm_key)

-----------------------------------------------------------------------------
(* UnivariateIPA: commit, open, verify and their batch forms *)

MaxBatch == 2

\* ipa_pc setup(max_degree, None, rng): the degree is rounded up to one less than
\* a power of two; the generators sampled are h, s and then the commitment key.
ArkworksIPA_setup(max_degree_wanted, rng) ==
    LET n == next_power_of_two(max_degree_wanted + 1)
        generator(i) == 1 + ((rng + i) % (Modulus - 1))
    IN  Ok([comm_key |-> [i \in 1..n |-> generator(i + 1)],
            h |-> generator(0),
            s |-> generator(1)])

\* UnivariateIPA::gen_srs_for_testing
gen_srs_for_testing(rng, supported_size) ==
    LET arkworks_srs == ArkworksIPA_setup(supported_size, rng)
    IN  IF ~IsOk(arkworks_srs) THEN arkworks_srs ELSE Ok(arkworks_srs.value)

\* impl From<ipa_pc::Proof<G>> for Proof<G>, with l_vec and r_vec exchanged.
Proof_from_swaps_l_r(arkworks_proof) ==
    [l_vec |-> arkworks_proof.r_vec,
     r_vec |-> arkworks_proof.l_vec,
     final_comm_key |-> arkworks_proof.final_comm_key,
     c |-> arkworks_proof.c,
     hiding_comm |-> arkworks_proof.hiding_comm,
     rand |-> arkworks_proof.rand]

\* impl From<ipa_pc::Proof<G>> for Proof<G>
Proof_from(arkworks_proof) ==
    [l_vec |-> arkworks_proof.l_vec,
     r_vec |-> arkworks_proof.r_vec,
     final_comm_key |-> arkworks_proof.final_comm_key,
     c |-> arkworks_proof.c,
     hiding_comm |-> arkworks_proof.hiding_comm,
     rand |-> arkworks_proof.rand]

\* impl Into<ipa_pc::Proof<G>> for &Proof<G>
Proof_into(self) ==
    [l_vec |-> self.l_vec,
     r_vec |-> self.r_vec,
     final_comm_key |-> self.final_comm_key,
     c |-> self.c,
     hiding_comm |-> self.hiding_comm,
     rand |-> self.rand]

\* UnivariateIPA::commit
UnivariateIPA_commit(prover_param, poly) ==
    ArkworksIPA_commit(ProverParam_into(prover_param), poly)

\* UnivariateIPA::open
UnivariateIPA_open(prover_param, polynomial, point) ==
    LET evaluation == evaluate(polynomial, point)
        commitment == UnivariateIPA_commit(prover_param, polynomial)
        arkworks_opening_proof ==
            ArkworksIPA_open(ProverParam_into(prover_param), polynomial,
                             commitment.value, point)
    IN  IF ~IsOk(commitment) THEN commitment
        ELSE IF ~IsOk(arkworks_opening_proof) THEN arkworks_opening_proof
        ELSE Ok(<<Proof_from(arkworks_opening_proof.value), evaluation>>)

\* UnivariateIPA::verify
UnivariateIPA_verify(verifier_param, commitment, point, value, proof) ==
    LET arkworks_proof == Proof_into(proof)
    IN  ArkworksIPA_check(ProverParam_into(verifier_param), commitment, point,
                          value, arkworks_proof)

\* The length of the shortest of the sequences zipped.
zip_len(lengths) == CHOOSE n \in lengths : \A m \in lengths : n <= m

\* UnivariateIPA::batch_commit
UnivariateIPA_batch_commit(prover_param, polys) ==
    collect_results([i \in 1..Len(polys) |->
        ArkworksIPA_commit(ProverParam_into(prover_param), polys[i])])

\* UnivariateIPA::batch_open, with the evaluations in reverse order.
UnivariateIPA_batch_open_reversed(prover_param, batch_commitment, polynomials, points) ==
    LET n == zip_len({Len(polynomials), Len(batch_commitment), Len(points)})
        opened == collect_results([i \in 1..n |->
            ArkworksIPA_open(ProverParam_into(prover_param), polynomials[i],
                             batch_commitment[i], points[i])])
    IN  IF ~IsOk(opened) THEN opened
        ELSE Ok(<<[i \in 1..n |-> Proof_from(opened.value[i])],
                  [i \in 1..n |-> evaluate(polynomials[n + 1 - i], points[n + 1 - i])]>>)

\* UnivariateIPA::batch_open
UnivariateIPA_batch_open(prover_param, batch_commitment, polynomials, points) ==
    LET n == zip_len({Len(polynomials), Len(batch_commitment), Len(points)})
        opened == collect_results([i \in 1..n |->
            ArkworksIPA_open(ProverParam_into(prover_param), polynomials[i],
                             batch_commitment[i], points[i])])
    IN  IF ~IsOk(opened) THEN opened
        ELSE Ok(<<[i \in 1..n |-> Proof_from(opened.value[i])],
                  [i \in 1..n |-> evaluate(polynomials[i], points[i])]>>)

\* UnivariateIPA::batch_verify: the loop returns at the first verify that is not
\* Ok(true), and the items it visits are those of the shortest sequence.
UnivariateIPA_batch_verify(verifier_param, multi_commitment, points, values, batch_proof) ==
    LET n == zip_len({Len(multi_commitment), Len(points), Len(values), Len(batch_proof)})
        res == [i \in 1..n |->
                   UnivariateIPA_verify(verifier_param, multi_commitment[i],
                                        points[i], values[i], batch_proof[i])]
        stops == {i \in 1..n : res[i] # Ok(TRUE)}
    IN  IF stops = {} THEN Ok(TRUE)
        ELSE res[CHOOSE i \in stops : \A j \in stops : i <= j]

RECURSIVE DensePolynomial_from_coefficients_vec(_)
\* DensePolynomial::from_coefficients_vec: the leading zeros are dropped.
DensePolynomial_from_coefficients_vec(coeffs) ==
    IF coeffs # <<>> /\ coeffs[Len(coeffs)] = 0
    THEN DensePolynomial_from_coefficients_vec(SubSeq(coeffs, 1, Len(coeffs) - 1))
    ELSE coeffs

\* Polynomials of degree at most MaxDegree.
Polynomials ==
    {DensePolynomial_from_coefficients_vec(Vec(k, s)) : k \in 0..(MaxDegree + 1), s \in F}

\* Lists of at most MaxBatch polynomials, of several degrees.
PolynomialLists ==
    {[i \in 1..k |->
         DensePolynomial_from_coefficients_vec(Vec((s + i) % (MaxDegree + 2), s + i))] :
        k \in 0..MaxBatch, s \in 0..MaxBatch}

\* Lists of at most MaxBatch points.
PointLists == {Vec(k, s) : k \in 0..MaxBatch, s \in Rngs}

\* A proof that ipa_pc check rejects for its lengths.
malformed(proof) == [proof EXCEPT !.l_vec = Append(@, 0)]

\* What a caller of batch_verify does to the outcome of batch_open: how many
\* values and proofs it hands over, and the first index it alters, with "value"
\* or with "proof"; the indices after that one are altered the other way.
Alterations(n) ==
    {<<keep, 0, "none">> : keep \in 0..n}
        \cup {<<n, i, kind>> : i \in 1..n, kind \in {"value", "proof"}}

altered_values(values, alteration) ==
    [i \in 1..alteration[1] |->
        IF alteration[2] = 0 \/ i < alteration[2] THEN values[i]
        ELSE IF (i = alteration[2]) = (alteration[3] = "value")
             THEN FAdd(values[i], 1)
             ELSE values[i]]

altered_proofs(proofs, alteration) ==
    [i \in 1..alteration[1] |->
        IF alteration[2] = 0 \/ i < alteration[2] THEN proofs[i]
        ELSE IF (i = alteration[2]) = (alteration[3] = "proof")
             THEN malformed(proofs[i])
             ELSE proofs[i]]

Call_gen_srs_for_testing ==
    /\ UNCHANGED <<base_scalar_map, pushed>>
    /\ Idle
    /\ \E rng \in Rngs, supported_size \in 0..MaxDegree :
        /\ op' = "gen_srs_for_testing"
        /\ args' = [rng |-> rng, supported_size |-> supported_size]
        /\ result' = gen_srs_for_testing(rng, supported_size)
        /\ locals' = NoLocals

\* trim of the SRS that gen_srs_for_testing returned.
Call_trim_after_gen_srs ==
    /\ UNCHANGED <<base_scalar_map, pushed>>
    /\ op = "gen_srs_for_testing"
    /\ IsOk(result)
    /\ \E supported_degree \in 0..MaxDegree :
        /\ op' = "trim"
        /\ args' = [srs |-> result.value, supported_degree |-> supported_degree]
        /\ result' = UnivariateIPA_trim(result.value, supported_degree)
        /\ locals' = NoLocals

\* commit with the prover parameters that trim returned.
Call_commit ==
    /\ UNCHANGED <<base_scalar_map, pushed>>
    /\ op = "trim"
    /\ IsOk(result)
    /\ \E poly \in Polynomials :
        /\ op' = "commit"
        /\ args' = [supported_degree |-> args.supported_degree,
                    prover_param |-> result.value[1],
                    verifier_param |-> result.value[2],
                    poly |-> poly]
        /\ result' = UnivariateIPA_commit(result.value[1], poly)
        /\ locals' = NoLocals

\* open of the polynomial committed to.
Call_open ==
    /\ UNCHANGED <<base_scalar_map, pushed>>
    /\ op = "commit"
    /\ IsOk(result)
    /\ \E point \in F :
        /\ op' = "open"
        /\ args' = [supported_degree |-> args.supported_degree,
                    prover_param |-> args.prover_param,
                    verifier_param |-> args.verifier_param,
                    polynomial |-> args.poly,
                    commitment |-> result.value,
                    point |-> point]
        /\ result' = UnivariateIPA_open(args.prover_param, args.poly, point)
        /\ locals' = NoLocals

\* verify of the commitment at the point opened, with the value and the proof
\* that open returned or with others.
Call_verify ==
    /\ UNCHANGED <<base_scalar_map, pushed>>
    /\ op = "open"
    /\ IsOk(result)
    /\ \E value \in F, proof \in {result.value[1], malformed(result.value[1])} :
        /\ op' = "verify"
        /\ args' = [supported_degree |-> args.supported_degree,
                    verifier_param |-> args.verifier_param,
                    polynomial |-> args.polynomial,
                    commitment |-> args.commitment,
                    point |-> args.point,
                    value |-> value,
                    proof |-> proof,
                    opened |-> result.value]
        /\ result' = UnivariateIPA_verify(args.verifier_param, args.commitment,
                                          args.point, value, proof)
        /\ locals' = NoLocals

Call_batch_commit ==
    /\ UNCHANGED <<base_scalar_map, pushed>>
    /\ op = "trim"
    /\ IsOk(result)
    /\ \E polys \in PolynomialLists :
        /\ op' = "batch_commit"
        /\ args' = [supported_degree |-> args.supported_degree,
                    prover_param |-> result.value[1],
                    verifier_param |-> result.value[2],
                    polys |-> polys]
        /\ result' = UnivariateIPA_batch_commit(result.value[1], polys)
        /\ locals' = NoLocals

Call_batch_open ==
    /\ UNCHANGED <<base_scalar_map, pushed>>
    /\ op = "batch_commit"
    /\ IsOk(result)
    /\ \E points \in PointLists :
        /\ op' = "batch_open"
        /\ args' = [supported_degree |-> args.supported_degree,
                    prover_param |-> args.prover_param,
                    verifier_param |-> args.verifier_param,
                    polynomials |-> args.polys,
                    batch_commitment |-> result.value,
                    points |-> points]
        /\ result' = UnivariateIPA_batch_open(args.prover_param, result.value,
                                              args.polys, points)
        /\ locals' = NoLocals

Call_batch_verify ==
    /\ UNCHANGED <<base_scalar_map, pushed>>
    /\ op = "batch_open"
    /\ IsOk(result)
    /\ \E alteration \in Alterations(Len(result.value[1])) :
        LET values == altered_values(result.value[2], alteration)
            batch_proof == altered_proofs(result.value[1], alteration)
        IN  /\ op' = "batch_verify"
            /\ args' = [supported_degree |-> args.supported_degree,
                        verifier_param |-> args.verifier_param,
                        polynomials |-> args.polynomials,
                        multi_commitment |-> args.batch_commitment,
                        points |-> args.points,
                        values |-> values,
                        batch_proof |-> batch_proof,
                        opened |-> result.value]
            /\ result' = UnivariateIPA_batch_verify(args.verifier_param,
                             args.batch_commitment, args.points, values, batch_proof)
            /\ locals' = NoLocals

PCSNext ==
    \/ Call_from_into
    \/ Call_gen_srs_for_testing
    \/ Call_trim_after_gen_srs
    \/ Call_commit
    \/ Call_open
    \/ Call_verify
    \/ Call_batch_commit
    \/ Call_batch_open
    \/ Call_batch_verify

PCSSpec == Init /\ [][PCSNext]_vars

\* C21: with the parameters of trim(srs, d), a polynomial p of degree at most d
\* and a point z, open returns a proof and the value p(z), and verify of
\* commit(pk, p) at z with that value and that proof returns Ok(true).
C21_CommitOpenVerifyComplete ==
    /\ (op = "commit" /\ Polynomial_degree(args.poly) <= args.supported_degree) => IsOk(result)
    /\ (op = "open" /\ Polynomial_degree(args.polynomial) <= args.supported_degree) =>
          /\ IsOk(result)
          /\ result.value[2] =
                inner_product(args.polynomial,
                    [i \in 1..Len(args.polynomial) |-> power(args.point, i - 1)])
    /\ (/\ op = "verify"
        /\ Polynomial_degree(args.polynomial) <= args.supported_degree
        /\ args.value = args.opened[2]
        /\ args.proof = args.opened[1]) =>
          result = Ok(TRUE)

C21_Witness ==
    /\ op = "verify"
    /\ Polynomial_degree(args.polynomial) <= args.supported_degree
    /\ Polynomial_degree(args.polynomial) >= 2
    /\ args.value = args.opened[2]
    /\ args.proof = args.opened[1]
    /\ args.value # 0
    /\ Len(args.proof.l_vec) >= 2
    /\ result = Ok(TRUE)

\* C23: converting a committer key of ipa_pc to ProverParam and back returns a
\* key with the comm_key, the h, the s and the max_degree of the original, so the
\* key that commit, open and verify hand to ipa_pc is the one ipa_pc trim
\* produced.
C23_FromThenIntoReturnsTheKey ==
    /\ op = "from_into" =>
          /\ result.value.comm_key = args.arkworks_commit_key.comm_key
          /\ result.value.h = args.arkworks_commit_key.h
          /\ result.value.s = args.arkworks_commit_key.s
          /\ result.value.max_degree = args.arkworks_commit_key.max_degree
    /\ (op = "trim" /\ IsOk(result)) =>
          ProverParam_into(result.value[1])
              = ArkworksIPA_trim(args.srs, args.supported_degree).value[1]

\* The polynomials are of degree at most the degree asked of trim.
degrees_supported(polynomials) ==
    \A i \in 1..Len(polynomials) :
        Polynomial_degree(polynomials[i]) <= args.supported_degree

\* C22: with the parameters of trim(srs, d), k polynomials of degree at most d
\* and k points, batch_open of batch_commit returns k proofs and k evaluations,
\* evaluation i being polynomial i at point i, and batch_verify of the
\* commitments, the points, those evaluations and those proofs returns Ok(true).
C22_BatchCommitOpenVerifyComplete ==
    /\ (op = "batch_commit" /\ degrees_supported(args.polys)) =>
          IsOk(result) /\ Len(result.value) = Len(args.polys)
    /\ (/\ op = "batch_open"
        /\ degrees_supported(args.polynomials)
        /\ Len(args.points) = Len(args.polynomials)) =>
          /\ IsOk(result)
          /\ Len(result.value[1]) = Len(args.polynomials)
          /\ Len(result.value[2]) = Len(args.polynomials)
          /\ \A i \in 1..Len(args.polynomials) :
                result.value[2][i] =
                    inner_product(args.polynomials[i],
                        [j \in 1..Len(args.polynomials[i]) |->
                            power(args.points[i], j - 1)])
    /\ (/\ op = "batch_verify"
        /\ degrees_supported(args.polynomials)
        /\ Len(args.points) = Len(args.polynomials)
        /\ args.values = args.opened[2]
        /\ args.batch_proof = args.opened[1]) =>
          result = Ok(TRUE)

C22_Witness ==
    /\ op = "batch_verify"
    /\ degrees_supported(args.polynomials)
    /\ Len(args.polynomials) = MaxBatch
    /\ Len(args.points) = MaxBatch
    /\ args.values = args.opened[2]
    /\ args.batch_proof = args.opened[1]
    /\ args.values[1] # args.values[MaxBatch]
    /\ Len(args.batch_proof[1].l_vec) >= 1
    /\ result = Ok(TRUE)

\* C24: batch_verify returns Ok(true) only if verify returns Ok(true) for every
\* commitment of multi_commitment with the point, the value and the proof of its
\* index; otherwise it returns what verify returns at the first index where
\* verify does not return Ok(true): Ok(false), or the error.
C24_BatchVerifyChecksEveryCommitment ==
    op = "batch_verify" =>
        LET n == Len(args.multi_commitment)
            has(i) == /\ i <= Len(args.points)
                      /\ i <= Len(args.values)
                      /\ i <= Len(args.batch_proof)
            res(i) == UnivariateIPA_verify(args.verifier_param,
                          args.multi_commitment[i], args.points[i],
                          args.values[i], args.batch_proof[i])
        IN  /\ result = Ok(TRUE) =>
                  \A i \in 1..n : has(i) /\ res(i) = Ok(TRUE)
            /\ result # Ok(TRUE) =>
                  \E i \in 1..n :
                      /\ has(i)
                      /\ result = res(i)
                      /\ \A j \in 1..(i - 1) : has(j) /\ res(j) = Ok(TRUE)

-----------------------------------------------------------------------------
(* ScalarsAndBases: a map from bases to scalars.  The map is the set of its   *)
(* entries (base, scalar); iterating over it visits them in any order.        *)

\* The pushes made to all values together are at most MaxPushes.
MaxPushes == 3

\* The bases pushed.
Bases == {1, Modulus - 1}

\* ScalarsAndBases::push, with an entry inserted whether or not the base has one.
ScalarsAndBases_push_always_inserts(self, scalar, base) ==
    self \cup {<<base, FAdd(0, scalar)>>}

\* ScalarsAndBases::push: the entry of the base, inserted with zero if there is
\* none, grows by the scalar.
ScalarsAndBases_push(self, scalar, base) ==
    IF \E entry \in self : entry[1] = base
    THEN {IF entry[1] = base THEN <<base, FAdd(entry[2], scalar)>> ELSE entry :
             entry \in self}
    ELSE self \cup {<<base, FAdd(0, scalar)>>}

\* The orders in which an iteration can visit the entries of a map.
iteration_orders(map) ==
    {order \in [1..Cardinality(map) -> map] :
        \A i, j \in 1..Cardinality(map) : order[i] = order[j] => i = j}

\* ScalarsAndBases::merge, the entries of the other visited in the given order.
ScalarsAndBases_merge(self, c, order) ==
    LET merged[k \in 0..Len(order)] ==
            IF k = 0 THEN self
            ELSE ScalarsAndBases_push(merged[k - 1], FMul(c, order[k][2]), order[k][1])
    IN  merged[Len(order)]

RECURSIVE VariableBaseMSM_multi_scalar_mul(_, _)
\* VariableBaseMSM::multi_scalar_mul: the sum of scalar * base.
VariableBaseMSM_multi_scalar_mul(bases, scalars) ==
    IF bases = <<>> \/ scalars = <<>> THEN 0
    ELSE CommAdd(CommMul(Head(bases), Head(scalars)),
                 VariableBaseMSM_multi_scalar_mul(Tail(bases), Tail(scalars)))

\* ScalarsAndBases::multi_scalar_mul, the entries visited in the given order.
ScalarsAndBases_multi_scalar_mul(order) ==
    LET bases == [i \in 1..Len(order) |-> order[i][1]]
        scalars == [i \in 1..Len(order) |-> order[i][2]]
    IN  VariableBaseMSM_multi_scalar_mul(bases, scalars)

\* The number of pushes made so far.
pushes == Len(pushed["a"]) + Len(pushed["b"])

Call_new ==
    /\ \E self \in Objects :
        /\ op' = "new"
        /\ args' = [self |-> self]
        /\ result' = Ok(<<>>)
        /\ base_scalar_map' = [base_scalar_map EXCEPT ![self] = ScalarsAndBases_new]
        /\ pushed' = [pushed EXCEPT ![self] = <<>>]
    /\ UNCHANGED locals

Call_push ==
    /\ pushes < MaxPushes
    /\ \E self \in Objects, scalar \in F, base \in Bases :
        /\ op' = "push"
        /\ args' = [self |-> self, scalar |-> scalar, base |-> base]
        /\ result' = Ok(<<>>)
        /\ base_scalar_map' =
              [base_scalar_map EXCEPT ![self] = ScalarsAndBases_push(@, scalar, base)]
        /\ pushed' = [pushed EXCEPT ![self] = Append(@, <<scalar, base>>)]
    /\ UNCHANGED locals

\* merge borrows self mutably and the other immutably: they are two values.
Call_merge ==
    /\ \E self \in Objects, other \in Objects, c \in F :
        /\ self # other
        /\ pushes + Cardinality(base_scalar_map[other]) <= MaxPushes
        /\ \E order \in iteration_orders(base_scalar_map[other]) :
            /\ op' = "merge"
            /\ args' = [self |-> self, c |-> c, other |-> other,
                        other_value |-> base_scalar_map[other]]
            /\ result' = Ok(<<>>)
            /\ base_scalar_map' =
                  [base_scalar_map EXCEPT ![self] = ScalarsAndBases_merge(@, c, order)]
            /\ pushed' =
                  [pushed EXCEPT ![self] =
                      @ \o [k \in 1..Len(order) |->
                               <<FMul(c, order[k][2]), order[k][1]>>]]
    /\ UNCHANGED locals

Call_multi_scalar_mul ==
    /\ \E self \in Objects :
        \E order \in iteration_orders(base_scalar_map[self]) :
            /\ op' = "multi_scalar_mul"
            /\ args' = [self |-> self]
            /\ result' = Ok(ScalarsAndBases_multi_scalar_mul(order))
    /\ UNCHANGED <<locals, base_scalar_map, pushed>>

ScalarsNext ==
    \/ Call_new
    \/ Call_push
    \/ Call_merge
    \/ Call_multi_scalar_mul

ScalarsSpec == Init /\ [][ScalarsNext]_vars

\* The field sum of the scalars pushed to a value for a base.
pushed_sum(self, base) ==
    LET sum[k \in 0..Len(pushed[self])] ==
            IF k = 0 THEN 0
            ELSE IF pushed[self][k][2] = base
                 THEN FAdd(sum[k - 1], pushed[self][k][1])
                 ELSE sum[k - 1]
    IN  sum[Len(pushed[self])]

\* C25: after any pushes and merges to a ScalarsAndBases made by new(), a base
\* has at most one entry in base_scalar_map, an entry exactly when something was
\* pushed for it, and the scalar of the entry is the field sum of the scalars
\* pushed for the base, merge(c, other) pushing c * s for each entry (base, s) of
\* the other and leaving the other as it was; multi_scalar_mul returns the sum of
\* scalar * base over everything pushed.
C25_MapHoldsTheSumOfThePushes ==
    /\ \A self \in Objects :
          /\ \A e1 \in base_scalar_map[self], e2 \in base_scalar_map[self] :
                e1[1] = e2[1] => e1 = e2
          /\ \A entry \in base_scalar_map[self] :
                entry[2] = pushed_sum(self, entry[1])
          /\ \A k \in 1..Len(pushed[self]) :
                \E entry \in base_scalar_map[self] : entry[1] = pushed[self][k][2]
          /\ \A entry \in base_scalar_map[self] :
                \E k \in 1..Len(pushed[self]) : pushed[self][k][2] = entry[1]
    /\ op = "merge" => base_scalar_map[args.other] = args.other_value
    /\ op = "multi_scalar_mul" =>
          result = Ok(VariableBaseMSM_multi_scalar_mul(
                          [k \in 1..Len(pushed[args.self]) |-> pushed[args.self][k][2]],
                          [k \in 1..Len(pushed[args.self]) |-> pushed[args.self][k][1]]))

C25_Witness ==
    /\ op = "merge"
    /\ args.c # 0
    /\ args.other_value # {}
    /\ \E i, j \in 1..Len(pushed[args.self]) :
          /\ i < j
          /\ pushed[args.self][i][2] = pushed[args.self][j][2]
          /\ pushed[args.self][i][1] # 0
          /\ pushed[args.self][j][1] # 0
    /\ \E entry \in base_scalar_map[args.self] : entry[2] # 0

====
